---- MODULE Spec2Model ----
(***************************************************************************)
(* WAutoSend: the Scheduled Delivery Engine (WASScheduler), the schedule   *)
(* store (WASStorage) and the interface operations (WASUI) that run beside *)
(* it, as interleavings of the asynchronous steps between their awaits.    *)
(***************************************************************************)
EXTENDS Integers, Sequences, FiniteSets, TLC

(* ------------------------------ bounds --------------------------------- *)
MaxDay == 1
MaxMinute == 1
MaxId == 2
MaxPasses == 2

Days == 0..MaxDay
Times == 0..MaxMinute
Ids == 1..MaxId
Passes == 1..MaxPasses
NoDate == -1
Names == {"A", "B"}
ClipTexts == {"", "c"}
PostActions == {"refresh", "close", "none"}

(* ------------------------------ state ---------------------------------- *)
VARIABLES
    today,                \* calendar date (new Date().toDateString())
    now,                  \* wall clock as HH:MM
    alive,                \* the page (tab) exists
    store,                \* chrome.storage.local[STORAGE_KEY]
    fallback,             \* localStorage was_fallback_ copy
    nextId,               \* next schedule id (Date.now().toString())
    settings,             \* chrome.storage.local[SETTINGS_KEY]
    schedulerSettings,    \* WASScheduler.settings: sendDelay, autoRetry
    ctxValid,             \* chrome.runtime.id present
    connected,            \* no disconnect banner in the page
    chat,                 \* the conversation openChat last reported as opened
    isRunning,            \* WASScheduler.isRunning / checkInterval
    isCheckingSchedules,  \* WASScheduler.isCheckingSchedules
    isSending,            \* WASScheduler.isSending
    pp,                   \* the checkSchedules invocations in flight
    tt,                   \* the interface's testSend in flight
    uu,                   \* the interface's addSchedule / deleteSchedule in flight
    rr,                   \* init()'s resetDailyStatus in flight
    reloadArmed,          \* a setTimeout(... location.reload()) is pending
    closeArmed,           \* a setTimeout(... closeTab()) is pending
    loadDay,              \* history: date of the last page load
    last,                 \* history: the last tick outcome or delivery notification
    sentToday,            \* history: ids recorded as sent in the store today
    inj,                  \* one call of injectAndSendMessage, step by step
    dup,                  \* the debug test's rapid calls of injectAndSendMessage
    call                  \* one call of a helper of the scheduler, step by step

vars == <<today, now, alive, store, fallback, nextId, settings,
          schedulerSettings, ctxValid,
          connected, chat, isRunning, isCheckingSchedules, isSending, pp, tt,
          uu, rr, reloadArmed, closeArmed, loadDay, last, sentToday, inj, dup,
          call>>

clockVars == <<today, now>>
storeVars == <<store, fallback>>
flagVars == <<isRunning, isCheckingSchedules, isSending>>
timerVars == <<reloadArmed, closeArmed>>
pageVars == <<alive, ctxValid, loadDay, schedulerSettings>>
cfgVars == <<nextId, settings, connected>>
procVars == <<pp, tt, uu, rr>>
histVars == <<last, sentToday>>
primVars == <<inj, dup, call>>

(* --------------------------- the schedule store ------------------------ *)
Schedule(id, time, message, useClipboard, contactList) ==
    [id |-> id, time |-> time, message |-> message,
     useClipboard |-> useClipboard, contactList |-> contactList,
     sent |-> FALSE, lastSentDate |-> NoDate]

\* getSchedules: the stored list, or the localStorage copy when the
\* extension context is gone
getSchedules == IF ctxValid THEN store ELSE fallback

\* saveSchedules: writes the list (and its copy); without a context only the
\* copy is written and the call reports false
saveSchedules(list) ==
    /\ store' = IF ctxValid THEN list ELSE store
    /\ fallback' = list

saveSchedulesResult == ctxValid

findIndex(list, id) ==
    IF \E i \in DOMAIN list : list[i].id = id
    THEN CHOOSE i \in DOMAIN list : list[i].id = id /\ \A j \in 1..(i-1) : list[j].id # id
    ELSE 0

\* markScheduleSent's patch applied by updateSchedule to the list it read
markedList(list, id, day) ==
    LET i == findIndex(list, id)
    IN  [list EXCEPT ![i] = [@ EXCEPT !.sent = TRUE, !.lastSentDate = day]]

\* resetDailyStatus's forEach over the list it read
resetList(list, day) ==
    [i \in DOMAIN list |->
        IF list[i].sent /\ list[i].lastSentDate # day
        THEN [list[i] EXCEPT !.sent = FALSE]
        ELSE list[i]]

removedList(list, id) == SelectSeq(list, LAMBDA s : s.id # id)

(* ------------------------------ scheduler ------------------------------ *)
isWhatsAppConnectedAlways == TRUE
isWhatsAppConnected == connected

shouldSendMessageAnyTime(schedule, currentTime) ==
    /\ ~schedule.sent
    /\ isWhatsAppConnected

shouldSendMessage(schedule, currentTime) ==
    /\ ~schedule.sent
    /\ schedule.time = currentTime
    /\ isWhatsAppConnected

\* the semaphore tests at the head of checkSchedules, sendScheduledMessage
\* and sendToTargets
\* window.wasStorage.isExtensionContextValid()
isExtensionContextValidAlways == TRUE
isExtensionContextValid == ctxValid

checkBlockedAlways == FALSE
checkBlocked == isCheckingSchedules
sendBlocked == isSending

\* a setting the store does not hold (null / undefined)
NoValue == -1
\* this.settings = { sendDelay: 3000, autoRetry: true }
DefaultSendDelay == 3000
\* the sendDelay and autoRetry of a settings object
sendSettings(s) == [sendDelay |-> s.sendDelay, autoRetry |-> s.autoRetry]
\* init(): the constructor's defaults, overwritten by Number(sendDelay) and
\* Boolean(autoRetry) for the values the store holds
initSettings(s) ==
    [sendDelay |-> IF s.sendDelay # NoValue THEN s.sendDelay ELSE DefaultSendDelay,
     autoRetry |-> IF s.autoRetry # "null" THEN s.autoRetry = "true" ELSE TRUE]

\* held: history, the store's sendDelay and autoRetry when the delivery
\* started; slept: the last sleep between targets; tries: the retries last
\* given to the conversation switch
IdlePass == [pc |-> "idle", pending |-> <<>>, idx |-> 0, text |-> "",
             ti |-> 0, success |-> FALSE, attempt |-> 0, snap |-> <<>>,
             markDay |-> NoDate, hits |-> {},
             held |-> [sendDelay |-> NoValue, autoRetry |-> "null"],
             slept |-> 0, tries |-> 0]
IdleTest == [pc |-> "idle", contacts |-> <<>>, ti |-> 0, success |-> FALSE,
             direct |-> FALSE]
IdleUI == [pc |-> "idle", snap |-> <<>>, arg |-> 0]
Event(ev, id) == [ev |-> ev, id |-> id]
NoEvent == Event("none", 0)

\* the state a page load leaves behind: constructor, init() up to start()
PageLoaded ==
    /\ alive' = TRUE
    /\ ctxValid' = TRUE
    /\ loadDay' = today
    /\ schedulerSettings' = initSettings(settings)
    /\ isRunning' = TRUE
    /\ isCheckingSchedules' = FALSE
    /\ isSending' = FALSE
    /\ pp' = [p \in Passes |-> IdlePass]
    /\ tt' = IdleTest
    /\ uu' = IdleUI
    /\ rr' = [pc |-> "read", snap |-> <<>>]
    /\ reloadArmed' = FALSE
    /\ closeArmed' = FALSE
    /\ chat' = "none"
    /\ last' = NoEvent
    /\ UNCHANGED <<clockVars, storeVars, cfgVars, sentToday, primVars>>

InitSettings ==
    { [postSendAction |-> a[1], autoReload |-> a[2],
       sendDelay |-> DefaultSendDelay, autoRetry |-> "true"] :
        a \in { <<"refresh", TRUE>>, <<"close", FALSE>>, <<"none", FALSE>> } }

\* one schedule due at 00:00 with a text, a clipboard fallback or neither,
\* alone or followed by a second one
InitStores ==
    LET Firsts == { Schedule(1, 0, m[1], m[2], <<>>) :
                      m \in {<<"m", FALSE>>, <<"", TRUE>>, <<"", FALSE>>} }
        Seconds == { Schedule(2, 0, "m", FALSE, <<>>),
                     Schedule(2, 0, "m", FALSE, <<"A", "B">>),
                     Schedule(2, MaxMinute, "m", FALSE, <<>>) }
    IN  { <<a>> : a \in Firsts } \cup { <<a, b>> : a \in Firsts, b \in Seconds }

NoCall == [pc |-> "none"]

\* testDuplicatePrevention: for (let i = 0; i < 3; i++)
RapidCalls == 3
\* no rapid calls made, and lastSendTime = 0
NoRapid == [cooling |-> FALSE, calls |-> [i \in 1..RapidCalls |-> "none"]]

\* the page has just been loaded on day0 with the given store and settings
InitWith(s0, set0, day0) ==
    /\ today = day0
    /\ now = 0
    /\ alive = TRUE
    /\ store = s0
    /\ fallback = s0
    /\ nextId = Len(s0) + 1
    /\ settings = set0
    /\ ctxValid = TRUE
    /\ connected = TRUE
    /\ chat = "none"
    /\ isRunning = TRUE
    /\ isCheckingSchedules = FALSE
    /\ isSending = FALSE
    /\ pp = [p \in Passes |-> IdlePass]
    /\ tt = IdleTest
    /\ uu = IdleUI
    /\ rr = [pc |-> "read", snap |-> <<>>]
    /\ reloadArmed = FALSE
    /\ closeArmed = FALSE
    /\ loadDay = day0
    /\ schedulerSettings = initSettings(set0)
    /\ last = NoEvent
    /\ sentToday = {}
    /\ dup = NoRapid

Init ==
    /\ \E s0 \in InitStores, set0 \in InitSettings : InitWith(s0, set0, 0)
    /\ inj = NoCall
    /\ call = NoCall

(* ------------------------------ environment ---------------------------- *)
\* the wall clock moves on by a minute, or over midnight
ClockTick ==
    /\ \/ now < MaxMinute /\ now' = now + 1 /\ UNCHANGED <<today, sentToday>>
       \/ now = MaxMinute /\ today < MaxDay /\ now' = 0 /\ today' = today + 1
          /\ sentToday' = {}
    /\ UNCHANGED <<storeVars, flagVars, timerVars, pageVars, cfgVars, procVars,
                   chat, last, primVars>>

\* the extension is reloaded under the page: chrome.runtime.id disappears
Invalidate ==
    /\ alive /\ ctxValid
    /\ ctxValid' = FALSE
    /\ UNCHANGED <<clockVars, storeVars, flagVars, timerVars, alive, loadDay,
                   schedulerSettings,
                   cfgVars, procVars, chat, histVars, primVars>>

\* the phone loses or regains its connection: the disconnect banner
\* appears in or disappears from the page
ToggleConnected ==
    /\ alive
    /\ connected' = ~connected
    /\ UNCHANGED <<clockVars, storeVars, flagVars, timerVars, pageVars, nextId,
                   settings, procVars, chat, histVars, primVars>>

(* ------------------------- page load and timers ------------------------ *)
\* a pending setTimeout(() => window.location.reload()) fires
ReloadFire ==
    /\ alive /\ reloadArmed
    /\ PageLoaded

\* setupReloadWatchdog's interval fires
WatchdogReload ==
    /\ alive /\ settings.autoReload
    /\ PageLoaded

\* what closeTab meets: whether chrome.runtime.sendMessage exists and what
\* the background's closeTab handler answers: success, a refusal, nothing,
\* or the request throws
CloseEnvs ==
    {[runtime |-> FALSE, answer |-> "none"]} \cup
    {[runtime |-> TRUE, answer |-> a] : a \in {"success", "failure", "none", "throws"}}

CloseStart(e) == [pc |-> "check", e |-> e, asked |-> FALSE, closes |-> 0,
                  result |-> FALSE]

\* if (response && response.success)
hostConfirmedAny(answer) == answer # "throws"
hostConfirmed(answer) == answer = "success"

\* one step of closeTab: the capability check, the request to the host,
\* the fallback window.close(); closes counts the calls of window.close()
closeStep(st) ==
    CASE st.pc = "check" ->
            IF st.e.runtime THEN [st EXCEPT !.pc = "ask", !.asked = TRUE]
            ELSE [st EXCEPT !.pc = "fallback"]
      [] st.pc = "ask" ->
            IF hostConfirmed(st.e.answer)
            THEN [st EXCEPT !.pc = "done", !.result = TRUE]
            ELSE [st EXCEPT !.pc = "fallback"]
      [] st.pc = "fallback" ->
            [st EXCEPT !.pc = "done", !.closes = @ + 1, !.result = FALSE]
      [] OTHER -> st

RECURSIVE closeRun(_)
closeRun(st) == IF st.pc = "done" THEN st ELSE closeRun(closeStep(st))

\* the call as a whole: its return value is .result
closeTab(e) == closeRun(CloseStart(e))

\* the pending setTimeout(() => closeTab()) fires; the tab goes away when
\* the host removed it or when the page's own window.close() is honoured
CloseFire ==
    /\ alive /\ closeArmed
    /\ \E e \in CloseEnvs, honoured \in BOOLEAN :
        LET o == closeTab(e)
            gone == (o.asked /\ e.answer = "success") \/ (o.closes > 0 /\ honoured)
        IN  /\ last' = [ev |-> "closeTab", id |-> 0, e |-> e, asked |-> o.asked,
                         closes |-> o.closes, result |-> o.result]
            /\ closeArmed' = FALSE
            /\ IF gone
               THEN /\ alive' = FALSE
                    /\ isRunning' = FALSE
                    /\ isCheckingSchedules' = FALSE
                    /\ isSending' = FALSE
                    /\ pp' = [p \in Passes |-> IdlePass]
                    /\ tt' = IdleTest
                    /\ uu' = IdleUI
                    /\ rr' = [pc |-> "done", snap |-> <<>>]
                    /\ reloadArmed' = FALSE
                    /\ chat' = "none"
               ELSE UNCHANGED <<alive, flagVars, procVars, reloadArmed, chat>>
    /\ UNCHANGED <<clockVars, storeVars, cfgVars, ctxValid, loadDay,
                 schedulerSettings, sentToday, primVars>>

\* the user opens the page again
OpenPage ==
    /\ ~alive
    /\ PageLoaded

\* WASStorage.getSettings: null once chrome.storage cannot be reached
NoSettings == [postSendAction |-> "", autoReload |-> FALSE,
               sendDelay |-> NoValue, autoRetry |-> "null"]
getSettings == IF ctxValid THEN settings ELSE NoSettings

\* settings.postSendAction || 'refresh', and the default branch of the switch
chosenActionStrict(a) == a
chosenAction(a) == IF a \in {"close", "none"} THEN a ELSE "refresh"

\* handlePostSendAction: the action is read from the settings now
handlePostSendAction ==
    LET action == chosenAction(getSettings.postSendAction)
    IN  /\ reloadArmed' = (reloadArmed \/ action = "refresh")
        /\ closeArmed' = (closeArmed \/ action = "close")

\* the interface's handlePostSendActionChange: the select in the panel is
\* set to another action, which is saved and confirmed by a notification
ChangePostSendAction(a) ==
    /\ alive /\ ctxValid
    /\ a # settings.postSendAction
    /\ settings' = [settings EXCEPT !.postSendAction = a]
    /\ last' = Event("settingsChanged", 0)
    /\ UNCHANGED <<clockVars, storeVars, flagVars, timerVars, pageVars, nextId,
                   connected, procVars, chat, sentToday, primVars>>

\* the values a caller of saveSetting gives to sendDelay and to autoRetry
SendDelays == {1000, DefaultSendDelay}
AutoRetries == {"true", "false"}

\* WASStorage.saveSetting(key, value) for sendDelay or autoRetry: the stored
\* settings object is read, patched and saved
SaveSetting(key, value) ==
    /\ alive /\ ctxValid
    /\ settings[key] # value
    /\ settings' = [settings EXCEPT ![key] = value]
    /\ UNCHANGED <<clockVars, storeVars, flagVars, timerVars, pageVars, nextId,
                   connected, procVars, chat, histVars, primVars>>

(* --------------------- init(): resetDailyStatus ----------------------- *)
ResetRead ==
    /\ alive /\ rr.pc = "read"
    /\ LET list == resetList(getSchedules, today)
       IN  rr' = IF list # getSchedules
                 THEN [pc |-> "write", snap |-> list]
                 ELSE [pc |-> "done", snap |-> <<>>]
    /\ UNCHANGED <<clockVars, storeVars, flagVars, timerVars, pageVars, cfgVars,
                   pp, tt, uu, chat, histVars, primVars>>

ResetWrite ==
    /\ alive /\ rr.pc = "write"
    /\ saveSchedules(rr.snap)
    /\ rr' = [pc |-> "done", snap |-> <<>>]
    /\ UNCHANGED <<clockVars, flagVars, timerVars, pageVars, cfgVars, pp, tt,
                   uu, chat, histVars, primVars>>

(* ------------- the interface: addSchedule / deleteSchedule ------------- *)
UITemplates == { Schedule(0, t, "m", FALSE, <<>>) : t \in Times }

\* WASStorage.addSchedule up to its await of the stored list
UIAddRead(tmpl) ==
    /\ alive /\ uu.pc = "idle"
    /\ nextId <= MaxId
    /\ uu' = [pc |-> "add", arg |-> nextId,
              snap |-> Append(getSchedules, [tmpl EXCEPT !.id = nextId])]
    /\ nextId' = nextId + 1
    /\ UNCHANGED <<clockVars, storeVars, flagVars, timerVars, pageVars, settings,
                   connected, pp, tt, rr, chat, histVars, primVars>>

\* WASStorage.removeSchedule up to its await of the stored list
UIRemoveRead(id) ==
    /\ alive /\ uu.pc = "idle"
    /\ \E i \in DOMAIN getSchedules : getSchedules[i].id = id
    /\ uu' = [pc |-> "remove", arg |-> id, snap |-> removedList(getSchedules, id)]
    /\ UNCHANGED <<clockVars, storeVars, flagVars, timerVars, pageVars, cfgVars,
                   pp, tt, rr, chat, histVars, primVars>>

\* the saveSchedules that ends either of them
UIWrite ==
    /\ alive /\ uu.pc \in {"add", "remove"}
    /\ saveSchedules(uu.snap)
    /\ uu' = IdleUI
    /\ UNCHANGED <<clockVars, flagVars, timerVars, pageVars, cfgVars, pp, tt,
                   rr, chat, histVars, primVars>>

(* ----------------- the send primitive: injectAndSendMessage ------------ *)
\* what the page does with one call: whether a composer is found, whether
\* the paste (method 1) and the insertText (method 2) land in it, and what
\* waitForMessageSent answers after each submit
InjectEnvs == [input : BOOLEAN, pasted : BOOLEAN, sent1 : BOOLEAN,
               inserted : BOOLEAN, sent2 : BOOLEAN]

\* a call that has slept out the cooldown and looks for the composer
InjStart(e) == [pc |-> "find", e |-> e, enters |-> 0, verified |-> FALSE,
                result |-> FALSE, stamped |-> FALSE, method |-> 0,
                tried |-> <<>>]

\* where the call goes on after the catch of method 1 and of method 2
afterCatchSkipping(pc) == "m3"
afterCatch(pc) == IF pc \in {"m1", "v1"} THEN "m2" ELSE "m3"

\* one step of the call: find the composer, then method 1 (paste), its
\* submit and waitForMessageSent, method 2 (insertText) likewise, method 3
\* (typing) with its submit; stamped = lastSendTime was set, tried = the
\* methods entered so far
injStep(st) ==
    CASE st.pc = "find" ->
            IF st.e.input THEN [st EXCEPT !.pc = "m1"]
            ELSE [st EXCEPT !.pc = "done", !.result = FALSE]
      [] st.pc = "m1" ->
            IF st.e.pasted
            THEN [st EXCEPT !.pc = "v1", !.enters = @ + 1, !.method = 1,
                            !.tried = Append(@, 1)]
            ELSE [st EXCEPT !.pc = afterCatch(st.pc), !.tried = Append(@, 1)]
      [] st.pc = "v1" ->
            IF st.e.sent1
            THEN [st EXCEPT !.pc = "done", !.result = TRUE, !.verified = TRUE,
                            !.stamped = TRUE]
            ELSE [st EXCEPT !.pc = afterCatch(st.pc)]
      [] st.pc = "m2" ->
            IF st.e.inserted
            THEN [st EXCEPT !.pc = "v2", !.enters = @ + 1, !.method = 2,
                            !.tried = Append(@, 2)]
            ELSE [st EXCEPT !.pc = afterCatch(st.pc), !.tried = Append(@, 2)]
      [] st.pc = "v2" ->
            IF st.e.sent2
            THEN [st EXCEPT !.pc = "done", !.result = TRUE, !.verified = TRUE,
                            !.stamped = TRUE]
            ELSE [st EXCEPT !.pc = afterCatch(st.pc)]
      [] st.pc = "m3" ->
            [st EXCEPT !.pc = "done", !.enters = @ + 1, !.method = 3,
                       !.result = TRUE, !.verified = FALSE, !.stamped = TRUE,
                       !.tried = Append(@, 3)]
      [] OTHER -> st

RECURSIVE injRun(_)
injRun(st) == IF st.pc = "done" THEN st ELSE injRun(injStep(st))

\* the call as a whole: its return value is .result
injectAndSendMessage(e) == injRun(InjStart(e))

\* the call taken one step at a time
InjectStep ==
    /\ inj.pc \notin {"none", "done"}
    /\ inj' = injStep(inj)
    /\ UNCHANGED <<clockVars, storeVars, flagVars, timerVars, pageVars, cfgVars,
                   procVars, chat, histVars, dup, call>>

(* ---------------- debug: rapid calls of the send primitive ------------- *)
\* cooling = Date.now() - lastSendTime < sendCooldown.  A call made while
\* cooling sleeps out the rest of the cooldown and then goes on; it is not
\* turned away.
RapidEntry == IF dup.cooling THEN "sleep" ELSE "run"

\* WASDebug.testDuplicatePrevention: three calls made in one synchronous
\* loop, so each runs up to its first await before the next is made
testDuplicatePrevention ==
    /\ \A i \in 1..RapidCalls : dup.calls[i] \in {"none", "true", "false"}
    /\ dup' = [dup EXCEPT !.calls = [i \in 1..RapidCalls |-> RapidEntry]]
    /\ UNCHANGED <<clockVars, storeVars, flagVars, timerVars, pageVars, cfgVars,
                   procVars, chat, histVars, inj, call>>

\* the cooldown sleep of call i is over
RapidWake(i) ==
    /\ dup.calls[i] = "sleep"
    /\ dup' = [dup EXCEPT !.calls[i] = "run"]
    /\ UNCHANGED <<clockVars, storeVars, flagVars, timerVars, pageVars, cfgVars,
                   procVars, chat, histVars, inj, call>>

\* call i returns; a call that set lastSendTime starts a cooldown
RapidEnd(i) ==
    /\ dup.calls[i] = "run"
    /\ \E e \in InjectEnvs :
        LET o == injectAndSendMessage(e)
        IN  dup' = [cooling |-> dup.cooling \/ o.stamped,
                    calls |-> [dup.calls EXCEPT ![i] = IF o.result THEN "true" ELSE "false"]]
    /\ UNCHANGED <<clockVars, storeVars, flagVars, timerVars, pageVars, cfgVars,
                   procVars, chat, histVars, inj, call>>

\* sendCooldown ms have passed since lastSendTime
CooldownOver ==
    /\ dup.cooling
    /\ dup' = [dup EXCEPT !.cooling = FALSE]
    /\ UNCHANGED <<clockVars, storeVars, flagVars, timerVars, pageVars, cfgVars,
                   procVars, chat, histVars, inj, call>>

(* --------------------------- checkSchedules ---------------------------- *)
\* the schedule the pass is at
Current(p) == pp[p].pending[pp[p].idx]

Contacts(r) == r.pending[r.idx].contactList

\* the for loop of checkSchedules after sendScheduledMessage has returned
\* for pending[idx] and the settle sleep, if any, is over
passNext(r) ==
    IF r.idx < Len(r.pending)
    THEN [IdlePass EXCEPT !.pc = "start", !.pending = r.pending, !.idx = r.idx + 1]
    ELSE IdlePass

\* if (pendingSchedules.length > 1) await this.sleep(3000)
needsSettleNever(r) == FALSE
needsSettle(r) == Len(r.pending) > 1

\* (a loop that gives up after a failed delivery)
passAfterSendAbort(r) ==
    IF ~r.success THEN IdlePass
    ELSE IF needsSettle(r)
    THEN [IdlePass EXCEPT !.pc = "settle", !.pending = r.pending, !.idx = r.idx]
    ELSE passNext(r)

\* ... and right after sendScheduledMessage has returned
passAfterSend(r) ==
    IF needsSettle(r)
    THEN [IdlePass EXCEPT !.pc = "settle", !.pending = r.pending, !.idx = r.idx]
    ELSE passNext(r)

\* checkSchedules without its finally
SetPassNoFinally(p, r) ==
    /\ pp' = [pp EXCEPT ![p] = r]
    /\ UNCHANGED isCheckingSchedules

\* the finally of checkSchedules runs when the invocation is over
SetPass(p, r) ==
    /\ pp' = [pp EXCEPT ![p] = r]
    /\ isCheckingSchedules' = IF r.pc = "idle" THEN FALSE ELSE isCheckingSchedules

FreePass == CHOOSE p \in Passes : pp[p].pc = "idle" /\ \A q \in Passes : pp[q].pc = "idle" => p <= q

\* the setInterval callback of start(): one call of checkSchedules up to its
\* first await
Tick ==
    /\ alive /\ isRunning
    /\ \/ /\ checkBlocked
          /\ last' = Event("tickDropped", 0)
          /\ UNCHANGED <<flagVars, pp, reloadArmed>>
       \/ \* stop(); handleContextInvalidation(); finally
          /\ ~checkBlocked /\ ~isExtensionContextValid
          /\ last' = Event("tickStopped", 0)
          /\ isRunning' = FALSE
          /\ reloadArmed' = TRUE
          /\ UNCHANGED <<isCheckingSchedules, isSending, pp>>
       \/ /\ ~checkBlocked /\ isExtensionContextValid
          /\ \E p \in Passes : pp[p].pc = "idle"
          /\ last' = last
          /\ isCheckingSchedules' = TRUE
          /\ pp' = [pp EXCEPT ![FreePass] = [IdlePass EXCEPT !.pc = "fetch"]]
          /\ UNCHANGED <<isRunning, isSending, reloadArmed>>
    /\ UNCHANGED <<clockVars, storeVars, pageVars, cfgVars, tt, uu, rr, chat,
                   closeArmed, sentToday, primVars>>

\* getSchedules() has answered: filter with shouldSendMessage
Fetch(p) ==
    /\ alive /\ pp[p].pc = "fetch"
    /\ LET pending == SelectSeq(getSchedules, LAMBDA s : shouldSendMessage(s, now))
       IN  IF Len(pending) = 0
           THEN /\ SetPass(p, IdlePass)
                /\ last' = Event("checked", 0)
           ELSE /\ SetPass(p, [IdlePass EXCEPT !.pc = "start", !.pending = pending, !.idx = 1])
                /\ last' = last
    /\ UNCHANGED <<clockVars, storeVars, pageVars, cfgVars, timerVars, isRunning,
                   isSending, tt, uu, rr, chat, sentToday, primVars>>

\* the settle sleep between two schedules of one pass is over
Settle(p) ==
    /\ alive /\ pp[p].pc = "settle"
    /\ SetPass(p, passNext(pp[p]))
    /\ UNCHANGED <<clockVars, storeVars, pageVars, cfgVars, timerVars, isRunning,
                   isSending, tt, uu, rr, chat, histVars, primVars>>

(* ------------------------- sendScheduledMessage ------------------------ *)
\* the text a schedule resolves to, given what the clipboard read returns
\* ('' also when the read is denied)
messageText(schedule, clip) ==
    IF schedule.message # "" THEN schedule.message
    ELSE IF schedule.useClipboard THEN clip
    ELSE ""

\* if (!messageText) return
noMessageTextNever(text) == FALSE
noMessageText(text) == text = ""

\* if (success) ... else ...
overallSuccessAlways(r) == TRUE
overallSuccess(r) == r.success

\* sendScheduledMessage(pending[idx]) from its call to the first page step
SendStart(p) ==
    /\ alive /\ pp[p].pc = "start"
    /\ LET r == pp[p]
           s == r.pending[r.idx]
       IN  IF sendBlocked
           THEN /\ SetPass(p, passAfterSend(r))
                /\ UNCHANGED isSending
           ELSE \E clip \in ClipTexts :
                LET text == messageText(s, clip)
                IN  /\ (s.message # "" \/ ~s.useClipboard) => clip = ""
                    /\ IF noMessageText(text)
                       THEN /\ SetPass(p, passAfterSend(r))
                            /\ UNCHANGED isSending
                       ELSE /\ isSending' = TRUE
                            /\ SetPass(p, [r EXCEPT !.text = text,
                                             !.held = sendSettings(settings),
                                             !.pc = IF Len(s.contactList) > 0 THEN "open" ELSE "inject",
                                             !.ti = IF Len(s.contactList) > 0 THEN 1 ELSE 0,
                                             !.attempt = 1])
    /\ UNCHANGED <<clockVars, storeVars, pageVars, cfgVars, timerVars, isRunning,
                   tt, uu, rr, chat, histVars, primVars>>

\* success = success || sent
accumulateLast(success, sent) == sent
accumulate(success, sent) == success \/ sent

\* if (i < contacts.length - 1) await this.sleep(this.settings.sendDelay)
targetDelayAlways(r) == TRUE
targetDelay(r) == r.ti < Len(Contacts(r))

\* for (let i = 0; i < contacts.length; i++): the target loop goes on to
\* the next target, or ends
nextTargetAgain(r) == [r EXCEPT !.pc = "open", !.attempt = 1]
nextTarget(r) ==
    IF r.ti < Len(Contacts(r))
    THEN [r EXCEPT !.pc = "open", !.ti = r.ti + 1, !.attempt = 1]
    ELSE [r EXCEPT !.pc = "finish"]

\* the target loop after the inject+send for target ti has answered;
\* hits = the targets whose inject+send answered true
afterTarget(r, sent) ==
    LET q == [r EXCEPT !.success = accumulate(r.success, sent),
                       !.hits = IF sent THEN r.hits \cup {r.ti} ELSE r.hits]
    IN  IF targetDelay(q) THEN [q EXCEPT !.pc = "delay"] ELSE nextTarget(q)

\* this.settings.autoRetry ? 3 : 1
openRetries == IF schedulerSettings.autoRetry THEN 3 ELSE 1

\* smartRetry(openChat(name), openRetries) has answered for target ti
OpenChat(p) ==
    /\ alive /\ pp[p].pc = "open"
    /\ \E opened \in BOOLEAN :
        LET r == [pp[p] EXCEPT !.tries = openRetries]
        IN  IF opened
            THEN /\ chat' = Contacts(r)[r.ti]
                 /\ pp' = [pp EXCEPT ![p] = [r EXCEPT !.pc = "inject"]]
            ELSE /\ chat' = chat
                 /\ pp' = [pp EXCEPT ![p] = nextTarget(r)]
    /\ UNCHANGED <<clockVars, storeVars, pageVars, cfgVars, timerVars, flagVars,
                   tt, uu, rr, histVars, primVars>>

\* the sleep(sendDelay) between two targets is over
TargetDelay(p) ==
    /\ alive /\ pp[p].pc = "delay"
    /\ pp' = [pp EXCEPT ![p] = nextTarget([pp[p] EXCEPT !.slept = schedulerSettings.sendDelay])]
    /\ UNCHANGED <<clockVars, storeVars, pageVars, cfgVars, timerVars, flagVars,
                   tt, uu, rr, chat, histVars, primVars>>

\* smartRetry(operation, 2): another attempt follows an attempt that
\* answered false while attempt < maxRetries
retryAgainMore(r, result) == ~result /\ r.attempt < 3
retryAgain(r, result) == ~result /\ r.attempt < 2

\* one attempt of smartRetry(injectAndSendMessage, 2) enters the primitive
InjectBegin(p) ==
    /\ alive /\ pp[p].pc = "inject"
    /\ pp' = [pp EXCEPT ![p].pc = "injecting"]
    /\ UNCHANGED <<clockVars, storeVars, pageVars, cfgVars, timerVars, flagVars,
                   tt, uu, rr, chat, histVars, primVars>>

\* ... and the primitive returns
InjectEnd(p) ==
    /\ alive /\ pp[p].pc = "injecting"
    /\ \E e \in InjectEnvs :
        LET o == injectAndSendMessage(e)
            r == pp[p]
        IN  pp' = [pp EXCEPT ![p] =
                    IF retryAgain(r, o.result)
                    THEN [r EXCEPT !.pc = "inject", !.attempt = r.attempt + 1]
                    ELSE IF r.ti = 0
                    THEN [r EXCEPT !.pc = "finish", !.success = o.result]
                    ELSE afterTarget(r, o.result)]
    /\ UNCHANGED <<clockVars, storeVars, pageVars, cfgVars, timerVars, flagVars,
                   tt, uu, rr, chat, histVars, primVars>>

\* if (success): markScheduleSent up to updateSchedule's read of the list;
\* else: the failure status, and the finally
Finish(p) ==
    /\ alive /\ pp[p].pc = "finish"
    /\ LET r == pp[p]
           s == r.pending[r.idx]
       IN  IF overallSuccess(r)
           THEN /\ pp' = [pp EXCEPT ![p] = [r EXCEPT !.pc = "mark",
                                              !.snap = getSchedules,
                                              !.markDay = today]]
                /\ UNCHANGED <<flagVars, last>>
           ELSE /\ last' = Event("failed", s.id)
                /\ isSending' = FALSE
                /\ SetPass(p, passAfterSend(r))
                /\ UNCHANGED isRunning
    /\ UNCHANGED <<clockVars, storeVars, pageVars, cfgVars, timerVars, tt, uu,
                   rr, chat, sentToday, primVars>>

\* updateSchedule writes the patched list if it found the id; then the
\* success status and the messageSent event
MarkWrite(p) ==
    /\ alive /\ pp[p].pc = "mark"
    /\ LET r == pp[p]
           s == r.pending[r.idx]
       IN  /\ IF findIndex(r.snap, s.id) # 0
              THEN /\ saveSchedules(markedList(r.snap, s.id, r.markDay))
                   /\ sentToday' = IF saveSchedulesResult /\ r.markDay = today
                                   THEN sentToday \cup {s.id}
                                   ELSE sentToday
              ELSE UNCHANGED <<storeVars, sentToday>>
           /\ last' = Event("messageSent", s.id)
           /\ pp' = [pp EXCEPT ![p] = [r EXCEPT !.pc = "post", !.snap = <<>>]]
    /\ UNCHANGED <<clockVars, pageVars, cfgVars, timerVars, flagVars, tt, uu,
                   rr, chat, primVars>>

\* handlePostSendAction, then the finally of sendScheduledMessage
PostAction(p) ==
    /\ alive /\ pp[p].pc = "post"
    /\ handlePostSendAction
    /\ last' = Event(IF last.ev = "settingsChanged" THEN "postActionAfterChange"
                     ELSE "postAction", Current(p).id)
    /\ isSending' = FALSE
    /\ SetPass(p, passAfterSend(pp[p]))
    /\ UNCHANGED <<clockVars, storeVars, pageVars, cfgVars, isRunning, tt, uu,
                   rr, chat, sentToday, primVars>>

(* --------------- the interface: testSend and sendToTargets ------------- *)
TestContacts == {<<>>, <<"A">>}

\* sendToTargets' loop moves past target ti
testAfterTarget(r, sent) ==
    IF r.ti < Len(r.contacts)
    THEN [r EXCEPT !.pc = "open", !.ti = r.ti + 1, !.success = r.success \/ sent]
    ELSE [r EXCEPT !.pc = "finish", !.success = r.success \/ sent]

\* WASUI.testSend: with contacts through sendToTargets, without them
\* straight into injectAndSendMessage
TestSend(contacts) ==
    /\ alive /\ tt.pc = "idle"
    /\ IF Len(contacts) > 0
       THEN IF sendBlocked
            THEN /\ tt' = [IdleTest EXCEPT !.pc = "report", !.contacts = contacts]
                 /\ UNCHANGED isSending
            ELSE /\ isSending' = TRUE
                 /\ tt' = [IdleTest EXCEPT !.pc = "open", !.contacts = contacts, !.ti = 1]
       ELSE /\ tt' = [IdleTest EXCEPT !.pc = "injecting", !.direct = TRUE]
            /\ UNCHANGED isSending
    /\ UNCHANGED <<clockVars, storeVars, pageVars, cfgVars, timerVars, isRunning,
                   isCheckingSchedules, pp, uu, rr, chat, histVars, primVars>>

\* sendToTargets: openChat(name) has answered for target ti
TestOpenChat ==
    /\ alive /\ tt.pc = "open"
    /\ \E opened \in BOOLEAN :
        IF opened
        THEN /\ chat' = tt.contacts[tt.ti]
             /\ tt' = [tt EXCEPT !.pc = "inject"]
        ELSE /\ chat' = chat
             /\ tt' = testAfterTarget(tt, FALSE)
    /\ UNCHANGED <<clockVars, storeVars, pageVars, cfgVars, timerVars, flagVars,
                   pp, uu, rr, histVars, primVars>>

\* sendToTargets enters injectAndSendMessage
TestInjectBegin ==
    /\ alive /\ tt.pc = "inject"
    /\ tt' = [tt EXCEPT !.pc = "injecting"]
    /\ UNCHANGED <<clockVars, storeVars, pageVars, cfgVars, timerVars, flagVars,
                   pp, uu, rr, chat, histVars, primVars>>

\* injectAndSendMessage returns to sendToTargets or to testSend
TestInjectEnd ==
    /\ alive /\ tt.pc = "injecting"
    /\ \E e \in InjectEnvs :
        LET o == injectAndSendMessage(e)
        IN  tt' = IF tt.direct
                  THEN [tt EXCEPT !.pc = "report", !.success = o.result]
                  ELSE testAfterTarget(tt, o.result)
    /\ UNCHANGED <<clockVars, storeVars, pageVars, cfgVars, timerVars, flagVars,
                   pp, uu, rr, chat, histVars, primVars>>

\* the tail of sendToTargets: post-send action on success, then the finally
TestFinish ==
    /\ alive /\ tt.pc = "finish"
    /\ IF tt.success THEN handlePostSendAction ELSE UNCHANGED timerVars
    /\ isSending' = FALSE
    /\ tt' = [tt EXCEPT !.pc = "report"]
    /\ UNCHANGED <<clockVars, storeVars, pageVars, cfgVars, isRunning,
                   isCheckingSchedules, pp, uu, rr, chat, histVars, primVars>>

\* the tail of testSend: the notification and, on success, the post-send action
TestReport ==
    /\ alive /\ tt.pc = "report"
    /\ IF tt.success THEN handlePostSendAction ELSE UNCHANGED timerVars
    /\ tt' = IdleTest
    /\ UNCHANGED <<clockVars, storeVars, pageVars, cfgVars, flagVars, pp, uu,
                   rr, chat, histVars, primVars>>

(* ---------------------------- specifications --------------------------- *)
\* the engine: the scheduler loop and the delivery orchestrator
Engine ==
    \/ ClockTick
    \/ ResetRead
    \/ ResetWrite
    \/ Tick
    \/ \E p \in Passes : Fetch(p)
    \/ \E p \in Passes : Settle(p)
    \/ \E p \in Passes : SendStart(p)
    \/ \E p \in Passes : OpenChat(p)
    \/ \E p \in Passes : TargetDelay(p)
    \/ \E p \in Passes : InjectBegin(p)
    \/ \E p \in Passes : InjectEnd(p)
    \/ \E p \in Passes : Finish(p)
    \/ \E p \in Passes : MarkWrite(p)
    \/ \E p \in Passes : PostAction(p)

\* the engine with its post-send actions and the reload watchdog
Next ==
    \/ Engine
    \/ ReloadFire
    \/ WatchdogReload
    \/ CloseFire
    \/ OpenPage

Spec == Init /\ [][Next]_vars

QuietSettings == [postSendAction |-> "none", autoReload |-> FALSE,
                  sendDelay |-> DefaultSendDelay, autoRetry |-> "true"]

\* the engine beside the interface's manual test-send
NextTest ==
    \/ Engine
    \/ \E c \in TestContacts : TestSend(c)
    \/ TestOpenChat
    \/ TestInjectBegin
    \/ TestInjectEnd
    \/ TestFinish
    \/ TestReport

InitTest ==
    /\ \E c \in {<<>>, <<"A", "B">>} :
        InitWith(<<Schedule(1, 0, "m", FALSE, <<>>), Schedule(2, 0, "m", FALSE, c)>>,
                 QuietSettings, 0)
    /\ inj = NoCall
    /\ call = NoCall

SpecTest == InitTest /\ [][NextTest]_vars

\* the engine beside the interface's schedule edits
NextStore ==
    \/ Engine
    \/ \E tmpl \in UITemplates : UIAddRead(tmpl)
    \/ \E id \in Ids : UIRemoveRead(id)
    \/ UIWrite

\* a schedule for two contacts that was sent the day before the page load
SentYesterday ==
    [Schedule(1, 0, "m", FALSE, <<"A", "B">>) EXCEPT !.sent = TRUE, !.lastSentDate = MaxDay - 1]

InitStore ==
    /\ \E s0 \in { <<Schedule(1, 0, "m", FALSE, <<>>)>>, <<SentYesterday>> } :
            InitWith(s0, QuietSettings, MaxDay)
    /\ inj = NoCall
    /\ call = NoCall

SpecStore == InitStore /\ [][NextStore]_vars

\* the engine under a lost extension context
NextCtx ==
    \/ Engine
    \/ Invalidate
    \/ ReloadFire

InitCtx ==
    /\ InitWith(<<SentYesterday, Schedule(2, 0, "m", FALSE, <<>>)>>, QuietSettings, MaxDay)
    /\ inj = NoCall
    /\ call = NoCall

SpecCtx == InitCtx /\ [][NextCtx]_vars

\* the engine under a connection that comes and goes
NextConn ==
    \/ Engine
    \/ ToggleConnected

SpecConn == InitCtx /\ [][NextConn]_vars

\* the engine beside the interface's post-send action select; the stored
\* action starts as refresh, unset or a value the engine does not know
NextSettings ==
    \/ Engine
    \/ \E a \in PostActions : ChangePostSendAction(a)
    \/ ReloadFire
    \/ CloseFire
    \/ OpenPage

InitSettingsWide ==
    /\ \E a \in {"refresh", "", "archive"} :
            InitWith(<<SentYesterday, Schedule(2, 0, "m", FALSE, <<>>)>>,
                     [QuietSettings EXCEPT !.postSendAction = a], MaxDay)
    /\ inj = NoCall
    /\ call = NoCall

SpecSettings == InitSettingsWide /\ [][NextSettings]_vars

\* the engine while sendDelay and autoRetry are changed in the store
NextSendSettings ==
    \/ Engine
    \/ \E value \in SendDelays : SaveSetting("sendDelay", value)
    \/ \E value \in AutoRetries : SaveSetting("autoRetry", value)

InitSendSettings ==
    /\ InitWith(<<SentYesterday, Schedule(2, 0, "m", FALSE, <<>>)>>, QuietSettings, MaxDay)
    /\ inj = NoCall
    /\ call = NoCall

SpecSendSettings == InitSendSettings /\ [][NextSendSettings]_vars

\* the steps of sendScheduledMessage behind the acquisition of isSending:
\* each is the continuation of an await
Delivery(p) ==
    \/ OpenChat(p)
    \/ TargetDelay(p)
    \/ InjectBegin(p)
    \/ InjectEnd(p)
    \/ Finish(p)
    \/ MarkWrite(p)
    \/ PostAction(p)

\* the engine on a page that stays open, every await of a delivery
\* returning
SpecLive ==
    /\ InitSendSettings
    /\ [][Engine]_vars
    /\ \A p \in Passes : WF_vars(Delivery(p))

(* ------------------------------ smartRetry ----------------------------- *)
\* everything but the helper call under study
engineVars == <<clockVars, storeVars, flagVars, timerVars, pageVars, cfgVars,
                procVars, chat, histVars, inj, dup>>

MaxRetries == 5
\* what one invocation of the operation does: it resolves to an object, to
\* true, to false, or it throws
Outcomes == {"object", "true", "false", "throws"}
\* if (result)
truthy(v) == v \in {"object", "true"}

\* attempt <= maxRetries
loopGoesOnOnceMore(attempt, maxRetries) == attempt <= maxRetries + 1
loopGoesOn(attempt, maxRetries) == attempt <= maxRetries

Min(a, b) == IF a < b THEN a ELSE b
\* Math.min(1000 * Math.pow(2, attempt - 1), 5000)
delayUncapped(attempt) == 1000 * 2^(attempt - 1)
delay(attempt) == Min(1000 * 2^(attempt - 1), 5000)

\* smartRetry(operation, maxRetries) is entered; outs[k] is what the k-th
\* invocation of the operation does.  calls counts the invocations, slept
\* lists the sleeps in order
RetryStart(maxRetries, outs) ==
    [fn |-> "smartRetry", maxRetries |-> maxRetries, outs |-> outs,
     attempt |-> 1, calls |-> 0, slept |-> <<>>, result |-> "false",
     pc |-> IF loopGoesOn(1, maxRetries) THEN "invoke" ELSE "done"]

\* the head of the for loop with the given attempt number
retryLoop(c, attempt) ==
    IF loopGoesOn(attempt, c.maxRetries)
    THEN [c EXCEPT !.attempt = attempt, !.pc = "invoke"]
    ELSE [c EXCEPT !.attempt = attempt, !.pc = "done", !.result = "false"]

\* await operation() inside the try, up to the sleep or the next round
RetryInvoke ==
    /\ call.fn = "smartRetry" /\ call.pc = "invoke"
    /\ LET c == [call EXCEPT !.calls = @ + 1]
           v == call.outs[call.calls + 1]
       IN  call' = IF v # "throws" /\ truthy(v)
                   THEN [c EXCEPT !.pc = "done", !.result = v]
                   ELSE IF c.attempt < c.maxRetries
                   THEN [c EXCEPT !.pc = "sleep"]
                   ELSE retryLoop(c, c.attempt + 1)
    /\ UNCHANGED engineVars

\* await this.sleep(delay) is over
RetrySleep ==
    /\ call.fn = "smartRetry" /\ call.pc = "sleep"
    /\ call' = retryLoop([call EXCEPT !.slept = Append(@, delay(call.attempt))],
                         call.attempt + 1)
    /\ UNCHANGED engineVars

NextRetry == RetryInvoke \/ RetrySleep

\* outs has one entry more than the largest maxRetries
InitRetry ==
    /\ InitWith(<<>>, QuietSettings, 0)
    /\ inj = NoCall
    /\ \E maxRetries \in 0..MaxRetries, outs \in [1..(MaxRetries + 1) -> Outcomes] :
            call = RetryStart(maxRetries, outs)

SpecRetry == InitRetry /\ [][NextRetry]_vars

(* --------------------------- waitForMessageSent ------------------------ *)
\* for (let i = 0; i < 15; i++)
VerifierPolls == 15

\* what one poll finds in the page.  composer: findMessageInputBox finds
\* nothing, a composer without text, or one with text.  The elements that
\* contain messageText.substring(0, 30): none, one that matches
\* [data-testid="msg-container"] only (the selector does not tell the
\* direction of the message: an incoming one), or one with the class
\* message-out / msg-out (an outgoing one)
PollEnvs == [composer : {"absent", "empty", "text"},
             match : {"none", "container", "outgoing"}]

\* const content = input ? (input.textContent || input.innerText || '') : '';
\* const inputCleared = !content.trim()
inputCleared(env) == env.composer # "text"
\* the loop over querySelectorAll(msg-container, .message-out, .msg-out)
messageFound(env) == env.match # "none"

\* seen: the answers of the polls made so far
VerifierStart ==
    [fn |-> "waitForMessageSent", pc |-> "poll", i |-> 0, result |-> FALSE,
     seen |-> {}, at |-> [composer |-> "text", match |-> "none"]]

\* await this.sleep(200) and the two checks that follow it
VerifierPoll(env) ==
    /\ call.fn = "waitForMessageSent" /\ call.pc = "poll"
    /\ LET c == [call EXCEPT !.i = @ + 1, !.seen = @ \cup {env}, !.at = env]
       IN  call' = IF inputCleared(env) /\ messageFound(env)
                   THEN [c EXCEPT !.pc = "done", !.result = TRUE]
                   ELSE IF c.i < VerifierPolls
                   THEN c
                   ELSE [c EXCEPT !.pc = "done", !.result = FALSE]
    /\ UNCHANGED engineVars

NextVerifier == \E env \in PollEnvs : VerifierPoll(env)

InitVerifier ==
    /\ InitWith(<<>>, QuietSettings, 0)
    /\ inj = NoCall
    /\ call = VerifierStart

SpecVerifier == InitVerifier /\ [][NextVerifier]_vars

(* ------------------- injectAndSendMessage: the cooldown ---------------- *)
\* this.sendCooldown = 2000
sendCooldown == 2000
\* the clock is read in steps of half a cooldown, MaxClock times
ClockStep == sendCooldown \div 2
MaxClock == 6

\* the callers of injectAndSendMessage: sendScheduledMessage, the
\* interface's test-send without targets, and the debug console
Callers == {"delivery", "testSend", "debug"}
IdleCaller == [pc |-> "idle", wake |-> 0, began |-> 0]

\* Date.now() - this.lastSendTime < this.sendCooldown
cooling(time, lastSendTime) == time - lastSendTime < sendCooldown

\* lastSendTime = 0 and a clock that is beyond the first cooldown
CooldownStart ==
    [fn |-> "cooldown", time |-> sendCooldown, lastSendTime |-> 0,
     who |-> [c \in Callers |-> IdleCaller]]

\* time passes; a sleep that is due ends before the clock moves on
CoolTick ==
    /\ call.fn = "cooldown"
    /\ call.time < sendCooldown + MaxClock * ClockStep
    /\ \A c \in Callers : call.who[c].pc = "sleep" => call.who[c].wake > call.time
    /\ call' = [call EXCEPT !.time = @ + ClockStep]
    /\ UNCHANGED engineVars

\* a caller enters injectAndSendMessage: inside the cooldown it sleeps
\* sendCooldown - (now - lastSendTime), otherwise it goes on to the composer
CoolArrive(c) ==
    /\ call.fn = "cooldown" /\ call.who[c].pc = "idle"
    /\ call' = [call EXCEPT !.who[c] =
                    IF cooling(call.time, call.lastSendTime)
                    THEN [pc |-> "sleep", began |-> 0,
                          wake |-> call.time + (sendCooldown - (call.time - call.lastSendTime))]
                    ELSE [pc |-> "run", wake |-> 0, began |-> call.time]]
    /\ UNCHANGED engineVars

\* the sleep is over: the call goes on to the composer
CoolWake(c) ==
    /\ call.fn = "cooldown" /\ call.who[c].pc = "sleep"
    /\ call.who[c].wake <= call.time
    /\ call' = [call EXCEPT !.who[c] = [pc |-> "run", wake |-> 0, began |-> call.time]]
    /\ UNCHANGED engineVars

\* the call returns, some time after it began; a call that returns true
\* has set lastSendTime = Date.now()
CoolEnd(c, sent) ==
    /\ call.fn = "cooldown" /\ call.who[c].pc = "run"
    /\ call.who[c].began < call.time
    /\ call' = [call EXCEPT !.who[c] = IdleCaller,
                            !.lastSendTime = IF sent THEN call.time ELSE @]
    /\ UNCHANGED engineVars

NextCooldown ==
    \/ CoolTick
    \/ \E c \in Callers : CoolArrive(c)
    \/ \E c \in Callers : CoolWake(c)
    \/ \E c \in Callers, sent \in BOOLEAN : CoolEnd(c, sent)

InitCooldown ==
    /\ InitWith(<<>>, QuietSettings, 0)
    /\ inj = NoCall
    /\ call = CooldownStart

SpecCooldown == InitCooldown /\ [][NextCooldown]_vars

(* -------------------------------- openChat ----------------------------- *)
MaxOpenRetries == 3

\* what one attempt meets.  search: findSearchInput finds the search input;
\* throws: a step of the gesture sequence throws; composer: what
\* findMessageInputBox returns after the gestures: nothing, an element
\* that isSearchBox classifies as the search surface, or another element;
\* header / selected: the header text / the selected list entry contains
\* the name; focusOnSearch: document.activeElement is the search surface
OpenEnvs == [search : BOOLEAN, throws : BOOLEAN,
             composer : {"none", "search", "composer"},
             header : BOOLEAN, selected : BOOLEAN, focusOnSearch : BOOLEAN]

\* if (messageInput && !this.isSearchBox(messageInput))
composerUsableAny(env) == env.composer # "none"
composerUsable(env) == env.composer = "composer"

\* the head of openChat's for loop with the given attempt number
openLoop(c, attempt) ==
    IF attempt < c.retries
    THEN [c EXCEPT !.attempt = attempt, !.pc = "attempt"]
    ELSE [c EXCEPT !.attempt = attempt, !.pc = "done", !.result = FALSE]

\* openChat(chatName, {retries}) is entered.  gestures counts the gesture
\* sequences made, slept lists the sleeps that end the failed attempts
OpenStart(retries) ==
    openLoop([fn |-> "openChat", retries |-> retries, attempt |-> 0,
              pc |-> "attempt", result |-> FALSE, gestures |-> 0,
              slept |-> <<>>, due |-> 0,
              at |-> [search |-> FALSE, throws |-> FALSE, composer |-> "none",
                      header |-> FALSE, selected |-> FALSE, focusOnSearch |-> FALSE]], 0)

\* one attempt up to its return or to the sleep that ends it: 300 ms when
\* the search input is missing, 500 ms after the catch and after a
\* composer that is missing or is the search surface
OpenAttempt(env) ==
    /\ call.fn = "openChat" /\ call.pc = "attempt"
    /\ LET c == [call EXCEPT !.at = env]
       IN  call' = IF ~env.search
                   THEN [c EXCEPT !.pc = "pace", !.due = 300]
                   ELSE IF env.throws
                   THEN [c EXCEPT !.pc = "pace", !.due = 500]
                   ELSE IF composerUsable(env)
                   THEN [c EXCEPT !.gestures = @ + 1, !.pc = "done", !.result = TRUE]
                   ELSE [c EXCEPT !.gestures = @ + 1, !.pc = "pace", !.due = 500]
    /\ UNCHANGED engineVars

\* the sleep is over: attempt++
OpenPace ==
    /\ call.fn = "openChat" /\ call.pc = "pace"
    /\ call' = openLoop([call EXCEPT !.slept = Append(@, call.due), !.due = 0],
                        call.attempt + 1)
    /\ UNCHANGED engineVars

NextOpen ==
    \/ \E env \in OpenEnvs : OpenAttempt(env)
    \/ OpenPace

InitOpen ==
    /\ InitWith(<<>>, QuietSettings, 0)
    /\ inj = NoCall
    /\ \E retries \in 0..MaxOpenRetries : call = OpenStart(retries)

SpecOpen == InitOpen /\ [][NextOpen]_vars

(* ----------------------- anti-inactivity measures ---------------------- *)
\* the clock of this part counts minutes, up to MaxIdleClock
MaxIdleClock == 11
\* const threeMinutes = 3 * 60 * 1000
threeMinutes == 3
\* (settings?.activityInterval || 5) minutes
ActivityIntervals == {2, 5}

\* if (timeSinceActivity < threeMinutes) return
recentActivityNever(time, lastActivity) == FALSE
recentActivity(time, lastActivity) == time - lastActivity < threeMinutes

\* the constructor's lastActivity = Date.now() and the interval set up by
\* setupAntiInactivityMeasures.  genuine / lastGenuine: history, the time of
\* the user's last own event; out: what the last tick did
IdleStart(interval) ==
    [fn |-> "antiIdle", time |-> 0, interval |-> interval, lastActivity |-> 0,
     genuine |-> FALSE, lastGenuine |-> 0, tickedAt |-> 0, out |-> "none"]

\* a minute passes; an interval tick that is due fires first
IdleClock ==
    /\ call.fn = "antiIdle"
    /\ call.time < MaxIdleClock
    /\ (call.time % call.interval = 0) => call.tickedAt = call.time
    /\ call' = [call EXCEPT !.time = @ + 1]
    /\ UNCHANGED engineVars

\* the user moves the mouse, presses a key, scrolls or touches: updateActivity
UserActivity ==
    /\ call.fn = "antiIdle"
    /\ call' = [call EXCEPT !.lastActivity = call.time, !.genuine = TRUE,
                            !.lastGenuine = call.time]
    /\ UNCHANGED engineVars

\* a keydown that openChat or injectAndSendMessage dispatches with
\* bubbles: true reaches the same listener
EngineKeydown ==
    /\ call.fn = "antiIdle"
    /\ call.lastActivity # call.time
    /\ call' = [call EXCEPT !.lastActivity = call.time]
    /\ UNCHANGED engineVars

\* the setInterval callback: simulateUserActivity
ActivityTick ==
    /\ call.fn = "antiIdle"
    /\ call.time > 0 /\ call.time % call.interval = 0
    /\ call.tickedAt # call.time
    /\ call' = IF recentActivity(call.time, call.lastActivity)
               THEN [call EXCEPT !.tickedAt = call.time, !.out = "skipped"]
               ELSE [call EXCEPT !.tickedAt = call.time, !.out = "emitted",
                                 !.lastActivity = call.time]
    /\ UNCHANGED engineVars

NextIdle == IdleClock \/ UserActivity \/ EngineKeydown \/ ActivityTick

InitIdle ==
    /\ InitWith(<<>>, QuietSettings, 0)
    /\ inj = NoCall
    /\ \E interval \in ActivityIntervals : call = IdleStart(interval)

SpecIdle == InitIdle /\ [][NextIdle]_vars

(* ------------- the target loop and the conversation on screen --------- *)
\* the conversations of the page: two targets and one that is neither
Conversations == {"A", "B", "C"}
\* what the Tab, Tab, Enter gesture of one openChat attempt brings about:
\* the target's conversation opens, nothing opens, or the conversation of
\* another search match opens
GestureEffects == {"target", "nothing", "other"}

\* one attempt of openChat answers true
attemptOpens(env) == env.search /\ ~env.throws /\ composerUsable(env)

\* sendScheduledMessage for the targets <<A, B>>; shown =
\* the conversation the page shows, into = the pairs of target and
\* conversation of the injections made
TargetsStart(shown) ==
    [fn |-> "targets", contacts |-> <<"A", "B">>, ti |-> 1, pc |-> "open",
     tries |-> 0, shown |-> shown, into |-> {}]

targetsNext(c) ==
    IF c.ti < Len(c.contacts)
    THEN [c EXCEPT !.ti = @ + 1, !.pc = "open", !.tries = 0]
    ELSE [c EXCEPT !.pc = "done"]

\* smartRetry's next openChat(name, {retries: 1}) for target ti.  A
\* composer that is not the search surface exists only in a conversation
TargetOpen(env, effect) ==
    /\ call.fn = "targets" /\ call.pc = "open"
    /\ LET name == call.contacts[call.ti]
           shown == IF ~env.search \/ env.throws \/ effect = "nothing" THEN call.shown
                    ELSE IF effect = "target" THEN name
                    ELSE CHOOSE x \in Conversations : x \notin {name, call.shown}
           c == [call EXCEPT !.shown = shown, !.tries = @ + 1]
       IN  /\ env.composer = "composer" => shown # "none"
           /\ call' = IF attemptOpens(env) THEN [c EXCEPT !.pc = "inject"]
                      ELSE IF c.tries < openRetries THEN c
                      ELSE targetsNext(c)
    /\ UNCHANGED engineVars

\* injectAndSendMessage types into the composer of the conversation shown
TargetInject ==
    /\ call.fn = "targets" /\ call.pc = "inject"
    /\ call' = targetsNext([call EXCEPT !.into = @ \cup {<<call.contacts[call.ti], call.shown>>}])
    /\ UNCHANGED engineVars

NextTargets ==
    \/ \E env \in OpenEnvs, effect \in GestureEffects : TargetOpen(env, effect)
    \/ TargetInject

InitTargets ==
    /\ InitWith(<<>>, QuietSettings, 0)
    /\ inj = NoCall
    /\ \E shown \in {"none", "C"} : call = TargetsStart(shown)

SpecTargets == InitTargets /\ [][NextTargets]_vars

(* ------------------ the content script: WASMain.restart ---------------- *)
MaxRestarts == 2
\* this.maxRetries = 5
maxRetries == 5

\* WASMain after its first init(): the error listeners are installed
MainReady == [fn |-> "main", pc |-> "ready", isInitialized |-> TRUE,
              retryCount |-> 0, restarts |-> 0]

\* a critical runtime error reaches handleRuntimeError: restart() stops the
\* scheduler, resets its own flags and sleeps 2 s
CriticalError ==
    /\ alive /\ call.pc = "ready"
    /\ call.restarts < MaxRestarts
    /\ isRunning' = FALSE
    /\ call' = [call EXCEPT !.pc = "sleep", !.isInitialized = FALSE,
                            !.retryCount = 0, !.restarts = @ + 1]
    /\ UNCHANGED <<clockVars, storeVars, isCheckingSchedules, isSending,
                   timerVars, pageVars, cfgVars, procVars, chat, histVars,
                   inj, dup>>

\* WASMain.init(), entered by restart() or by the retry timer: it waits for
\* the page and for the module objects and installs the error listeners;
\* when the page is not ready handleInitializationError counts a retry
MainInit(ready) ==
    /\ alive /\ call.pc \in {"sleep", "retry"}
    /\ call' = IF ready
               THEN [call EXCEPT !.pc = "ready", !.isInitialized = TRUE]
               ELSE [call EXCEPT !.retryCount = @ + 1,
                                 !.pc = IF call.retryCount + 1 < maxRetries
                                        THEN "retry" ELSE "failed"]
    /\ UNCHANGED engineVars

\* the scheduler loop on a page that stays open, beside the content script
NextRestart ==
    \/ ClockTick
    \/ Tick
    \/ \E p \in Passes : Fetch(p)
    \/ CriticalError
    \/ \E ready \in BOOLEAN : MainInit(ready)

\* nothing is due: the only schedule was sent today
InitRestart ==
    /\ InitWith(<<[Schedule(1, 0, "m", FALSE, <<>>) EXCEPT
                      !.sent = TRUE, !.lastSentDate = MaxDay]>>,
                QuietSettings, MaxDay)
    /\ inj = NoCall
    /\ call = MainReady

\* timers fire and awaits return
SpecRestart ==
    /\ InitRestart
    /\ [][NextRestart]_vars
    /\ WF_vars(Tick)
    /\ \A p \in Passes : WF_vars(Fetch(p))
    /\ WF_vars(\E ready \in BOOLEAN : MainInit(ready))

\* the debug console's duplicate test against the send primitive
NextDup ==
    \/ testDuplicatePrevention
    \/ \E i \in 1..RapidCalls : RapidWake(i)
    \/ \E i \in 1..RapidCalls : RapidEnd(i)
    \/ CooldownOver

InitDup ==
    /\ InitWith(<<>>, QuietSettings, 0)
    /\ inj = NoCall
    /\ call = NoCall

SpecDup == InitDup /\ [][NextDup]_vars

\* the send primitive alone, for every behaviour of the page
InitInject ==
    /\ InitWith(<<>>, QuietSettings, 0)
    /\ inj \in { InjStart(e) : e \in InjectEnvs }
    /\ call = NoCall

SpecInject == InitInject /\ [][InjectStep]_vars

(* ------------------------------- properties ---------------------------- *)
\* the steps of a delivery that touch the page
PagePcs == {"open", "inject", "injecting"}
\* a delivery from the acquisition of isSending to its release
DeliveryPcs == PagePcs \cup {"delay", "finish", "mark", "post"}

PassDelivering(p) == pp[p].pc \in PagePcs
TestDelivering == tt.pc \in PagePcs

\* C1: at most one message delivery (scheduled delivery, sendToTargets or
\* manual test-send) is working on the page at any instant.
C1_AtMostOneDelivery ==
    Cardinality({p \in Passes : PassDelivering(p)})
        + (IF TestDelivering THEN 1 ELSE 0) <= 1

\* C2: at most one checkSchedules pass is in flight, and a tick that fires
\* while a pass is in flight fetches nothing, delivers nothing and leaves
\* nothing behind that a later pass would run for.
C2_OnePassAtATime ==
    /\ [](Cardinality({p \in Passes : pp[p].pc # "idle"}) <= 1)
    /\ [][(Tick /\ (\E p \in Passes : pp[p].pc # "idle"))
            => UNCHANGED <<pp, storeVars, flagVars, timerVars, chat, sentToday>>]_vars

C2_Witness ==
    /\ last = Event("tickDropped", 0)
    /\ \E p \in Passes : pp[p].pc = "injecting"

\* C3: once a schedule has been recorded as sent on the current date, no
\* delivery is started for it on that date.
C3_NoSecondDelivery ==
    [][\A p \in Passes :
        (SendStart(p) /\ pp'[p].pc \in DeliveryPcs) => Current(p).id \notin sentToday]_vars

\* C4: a delivery request made while another delivery is in flight is
\* rejected without side effects.
C4_RejectedWhileInFlight ==
    [][\A p \in Passes :
        (SendStart(p) /\ TestDelivering)
            => /\ pp'[p].pc \notin DeliveryPcs
               /\ UNCHANGED <<storeVars, isSending, timerVars, chat, last>>]_vars

\* C5: injectAndSendMessage returns true, and sets lastSendTime, only when
\* waitForMessageSent returned true for the submit that was made.
C5_OnlyVerifiedCounts ==
    (inj.pc = "done" /\ (inj.result \/ inj.stamped)) => inj.verified

\* C6: a schedule whose resolved text is empty causes no conversation
\* switch, injection or submit, is not marked sent and triggers no
\* post-send action.
C6_EmptyTextNoEffect ==
    /\ [](\A p \in Passes : pp[p].pc \in DeliveryPcs =>
            /\ pp[p].text # ""
            /\ pp[p].text \in {Current(p).message} \cup
                    (IF Current(p).useClipboard THEN ClipTexts ELSE {}))
    /\ [][\A p \in Passes :
            (SendStart(p) /\ pp'[p].pc \notin DeliveryPcs)
                => UNCHANGED <<storeVars, isSending, timerVars, chat, histVars>>]_vars

C6_Witness ==
    \E p \in Passes :
        /\ pp[p].pc = "settle"
        /\ pp[p].idx = 1
        /\ Current(p).message = ""
        /\ ~isSending
        /\ \E i \in DOMAIN store : store[i].id = Current(p).id /\ ~store[i].sent

\* C7: on overall success the schedule is marked sent for the current date
\* in the store before the messageSent notification and the post-send
\* action: when messageSent is emitted the stored schedule has sent = true
\* and lastSentDate = the date of the delivery.
C7_MarkedWhenNotified ==
    [][\A p \in Passes :
        MarkWrite(p) =>
            \E i \in DOMAIN store' :
                /\ store'[i].id = Current(p).id
                /\ store'[i].sent
                /\ store'[i].lastSentDate = pp[p].markDay]_vars

\* C8: on overall failure the engine emits a failure notification, writes
\* nothing to the store, emits no messageSent and arms no post-send action.
C8_FailureLeavesUnsent ==
    /\ [](\A p \in Passes : pp[p].pc \in {"mark", "post"} => pp[p].success)
    /\ [][\A p \in Passes :
            (Finish(p) /\ ~pp[p].success)
                => /\ last' = Event("failed", Current(p).id)
                   /\ pp'[p].pc \notin {"mark", "post"}
                   /\ UNCHANGED <<storeVars, timerVars, sentToday>>]_vars

C8_Witness ==
    /\ last.ev = "failed"
    /\ \E i \in DOMAIN store : store[i].id = last.id /\ ~store[i].sent
    /\ ~reloadArmed /\ ~closeArmed

\* C9: for an engine that has kept running since it sent a schedule, a pass
\* at the schedule's time on a later date finds the schedule due again.
C9_RearmedNextDay ==
    [][\A p \in Passes :
        Fetch(p) =>
            \A i \in DOMAIN store :
                ( /\ store[i].time = now
                  /\ store[i].lastSentDate # NoDate
                  /\ store[i].lastSentDate < today
                  /\ loadDay <= store[i].lastSentDate )
                => \E k \in DOMAIN pp'[p].pending :
                        pp'[p].pending[k].id = store[i].id]_vars

\* C10: a failed delivery is reported and does not end the pass: the pass
\* ends only after its last due schedule, and the next due schedule is
\* taken up after a failure.
C10_FailureDoesNotBlockSiblings ==
    [][\A p \in Passes :
        /\ ((SendStart(p) \/ Finish(p) \/ PostAction(p) \/ Settle(p)) /\ pp'[p].pc = "idle")
              => pp[p].idx = Len(pp[p].pending)
        /\ (Finish(p) /\ ~pp[p].success /\ pp[p].idx < Len(pp[p].pending))
              => /\ last' = Event("failed", Current(p).id)
                 /\ pp'[p].pc = "settle"
                 /\ pp'[p].pending = pp[p].pending
        /\ (Settle(p) /\ pp[p].idx < Len(pp[p].pending))
              => /\ pp'[p].pc = "start"
                 /\ pp'[p].idx = pp[p].idx + 1
                 /\ pp'[p].pending = pp[p].pending]_vars

C10_Witness ==
    \E p \in Passes :
        /\ pp[p].idx = 2
        /\ pp[p].pc \in PagePcs
        /\ last = Event("failed", pp[p].pending[1].id)

\* position of a schedule id in the stored list (0 when absent)
StorePos(id) == findIndex(store, id)

\* C11: the schedules due in one tick are taken in the store's list order,
\* one at a time: schedule k+1 is started only from the settle delay that
\* follows the end of schedule k's delivery, and when more than one schedule
\* is due every delivery of the pass ends in that delay.
C11_SequentialInOrder ==
    /\ [](\A p \in Passes : \A i, j \in DOMAIN pp[p].pending :
            (i < j /\ StorePos(pp[p].pending[i].id) # 0 /\ StorePos(pp[p].pending[j].id) # 0)
                => StorePos(pp[p].pending[i].id) < StorePos(pp[p].pending[j].id))
    /\ [][\A p \in Passes :
            /\ (pp'[p] # pp[p] /\ pp'[p].pc = "start" /\ pp'[p].idx > 1)
                  => /\ pp[p].pc = "settle"
                     /\ pp'[p].idx = pp[p].idx + 1
                     /\ pp'[p].pending = pp[p].pending
            /\ ((SendStart(p) \/ Finish(p) \/ PostAction(p))
                    /\ pp'[p].pc \notin DeliveryPcs /\ Len(pp[p].pending) > 1)
                  => pp'[p].pc = "settle"]_vars

C11_Witness ==
    \E p \in Passes :
        /\ pp[p].pc \in PagePcs
        /\ pp[p].idx = 2
        /\ StorePos(pp[p].pending[1].id) = 1
        /\ StorePos(pp[p].pending[2].id) = 2

\* C12: the schedules a tick takes up are exactly the stored schedules with
\* sent = false and time = the current HH:MM, provided no disconnect banner
\* is present when the tick filters them; with the banner present the tick
\* takes up none and starts no delivery.
C12_DueSetExact ==
    [][\A p \in Passes :
        Fetch(p) =>
            LET due == {i \in DOMAIN store : ~store[i].sent /\ store[i].time = now}
                taken == {pp'[p].pending[k].id : k \in DOMAIN pp'[p].pending}
            IN  /\ connected => taken = {store[i].id : i \in due}
                /\ ~connected => (taken = {} /\ pp'[p].pc = "idle")
                /\ Len(pp'[p].pending) = Cardinality(taken)
                /\ UNCHANGED <<storeVars, isSending, chat, timerVars>>]_vars

C12_Witness ==
    /\ last = Event("checked", 0)
    /\ ~connected
    /\ now = 0 /\ today = MaxDay /\ loadDay = MaxDay
    /\ \E i \in DOMAIN store : ~store[i].sent /\ store[i].time = 0
    /\ \A p \in Passes : pp[p].pc = "idle"

\* targets are taken one by one in listed order, the conversation of
\* target i is open while target i is injected, and there is no sendDelay
\* after the last target
TargetsInOrder ==
    /\ [](\A p \in Passes :
            /\ (pp[p].pc \in {"inject", "injecting"} /\ pp[p].ti > 0)
                    => chat = Contacts(pp[p])[pp[p].ti]
            /\ pp[p].pc = "delay" => pp[p].ti < Len(Contacts(pp[p])))
    /\ [][\A p \in Passes :
            (pp[p].pc \in DeliveryPcs /\ pp'[p].pc \in DeliveryPcs
                    /\ pp'[p].idx = pp[p].idx /\ pp'[p].ti # pp[p].ti)
                => /\ pp[p].ti >= 1
                   /\ pp'[p].ti = pp[p].ti + 1
                   /\ pp'[p].pc = "open"]_vars

\* C13 (as claimed): targets are handled in listed order and sendDelay
\* elapses between any two consecutive targets, none after the last.
C13_DelayBetweenAllTargets ==
    /\ TargetsInOrder
    /\ [][\A p \in Passes :
            (pp[p].pc \in DeliveryPcs /\ pp'[p].pc \in DeliveryPcs
                    /\ pp'[p].idx = pp[p].idx /\ pp'[p].ti = pp[p].ti + 1)
                => pp[p].pc = "delay"]_vars

\* C13 (amended): targets are handled in listed order; sendDelay elapses
\* after the inject+send of every target but the last, and a target whose
\* conversation could not be opened is skipped without that delay.
C13_DelayAfterEachSend ==
    /\ TargetsInOrder
    /\ [][\A p \in Passes :
            /\ (pp[p].pc \in DeliveryPcs /\ pp'[p].pc \in DeliveryPcs
                    /\ pp'[p].idx = pp[p].idx /\ pp'[p].ti = pp[p].ti + 1)
                  => pp[p].pc \in {"delay", "open"}
            /\ (pp[p].pc = "injecting" /\ pp[p].ti > 0 /\ pp'[p].pc \notin {"injecting", "inject"}
                    /\ pp'[p].idx = pp[p].idx /\ pp'[p].pc \in DeliveryPcs)
                  => pp'[p].pc = IF pp[p].ti < Len(Contacts(pp[p])) THEN "delay" ELSE "finish"
            /\ (pp[p].pc = "open" /\ pp'[p].pc \in DeliveryPcs /\ pp'[p].idx = pp[p].idx
                    /\ pp'[p].pc # "inject" /\ pp'[p] # pp[p])
                  => /\ pp'[p].pc = IF pp[p].ti < Len(Contacts(pp[p])) THEN "open" ELSE "finish"
                     /\ chat' = chat]_vars

C13_Witness ==
    \E p \in Passes :
        /\ pp[p].pc = "inject"
        /\ pp[p].ti = 2
        /\ 1 \in pp[p].hits
        /\ chat = "B"

\* C14: a schedule with targets takes the success branch, in which it is
\* marked sent, if and only if the inject+send answered true for at least
\* one of its targets; a target whose conversation could not be opened
\* adds nothing to the success.
C14_SuccessIsOrOverTargets ==
    /\ [](\A p \in Passes :
            (pp[p].pc \in {"finish", "mark", "post"} /\ pp[p].ti > 0)
                => (pp[p].success <=> pp[p].hits # {}))
    /\ [][\A p \in Passes :
            /\ (Finish(p) /\ pp[p].ti > 0) => (pp'[p].pc = "mark" <=> pp[p].hits # {})
            /\ (MarkWrite(p) /\ pp[p].ti > 0) => pp[p].hits # {}
            /\ (OpenChat(p) /\ pp'[p].pc # "inject")
                    => (pp'[p].hits = pp[p].hits /\ pp'[p].success = pp[p].success)]_vars

C14_Witness ==
    \E p \in Passes :
        /\ pp[p].pc = "mark"
        /\ pp[p].ti = 2
        /\ pp[p].hits = {1}

\* C15: a tick that finds the extension context invalid stops the loop and
\* arms the store's recovery reload without fetching or delivering
\* anything, and no tick enters the body of checkSchedules while the loop
\* is stopped or the context is invalid.
C15_InvalidContextStopsLoop ==
    [][/\ (Tick /\ ~isCheckingSchedules /\ ~ctxValid)
            => /\ isRunning' = FALSE
               /\ reloadArmed' = TRUE
               /\ UNCHANGED <<pp, storeVars, isSending, isCheckingSchedules, chat,
                              closeArmed, sentToday>>
       /\ \A p \in Passes :
            (pp[p].pc = "idle" /\ pp'[p].pc = "fetch") => (isRunning /\ ctxValid)]_vars

C15_Witness ==
    /\ last = Event("tickStopped", 0)
    /\ alive /\ ~ctxValid
    /\ ~isRunning
    /\ reloadArmed
    /\ \A p \in Passes : pp[p].pc = "idle"
    /\ \E i \in DOMAIN fallback : ~fallback[i].sent /\ fallback[i].time = now

\* C16: a tick takes up a schedule, and so a schedule whose delivery failed
\* on an earlier tick, only while the current HH:MM equals the schedule's
\* time; after the minute has passed a failed schedule is not taken up
\* again before its time matches once more.
C16_RetryOnlyInSameMinute ==
    [][\A p \in Passes :
        (pp[p].pc = "fetch" /\ pp'[p].pc = "start")
            => \A k \in DOMAIN pp'[p].pending :
                    /\ pp'[p].pending[k].time = now
                    /\ ~pp'[p].pending[k].sent]_vars

C16_Witness ==
    \E p \in Passes :
        /\ pp[p].pc \in PagePcs
        /\ pp[p].idx = 1
        /\ last = Event("failed", Current(p).id)
        /\ Current(p).time = now

\* C17 (as claimed): for a due schedule without targets the in-place send is
\* attempted once in a tick's pass.
C17_OneAttemptPerTick ==
    [][\A p \in Passes :
        (pp[p].pc = "inject" /\ pp'[p].pc = "injecting" /\ pp[p].ti = 0)
            => pp[p].attempt = 1]_vars

\* C17 (amended): for a due schedule without targets a pass attempts the
\* in-place send once and, if that attempt answers false, once more; after
\* the last attempt the delivery ends, and the schedule is taken up again
\* only by a later tick's pass.
C17_AtMostTwoAttemptsPerPass ==
    /\ [](\A p \in Passes :
            pp[p].pc \in {"inject", "injecting"} => pp[p].attempt \in {1, 2})
    /\ [][\A p \in Passes :
            /\ (pp[p].pc = "start" /\ pp'[p].pc = "inject") => pp'[p].attempt = 1
            /\ (pp[p].pc = "injecting" /\ pp[p].ti = 0 /\ pp'[p].pc \in DeliveryPcs
                    /\ pp'[p] # pp[p])
                  => \/ /\ pp'[p].pc = "inject"
                        /\ pp[p].attempt = 1
                        /\ pp'[p].attempt = 2
                        /\ ~pp'[p].success
                     \/ /\ pp'[p].pc = "finish"
                        /\ pp'[p].success \/ pp[p].attempt = 2
            /\ (pp[p].pc = "finish" /\ pp[p].ti = 0 /\ pp'[p] # pp[p])
                  => pp'[p].pc \notin PagePcs]_vars

C17_Witness ==
    \E p \in Passes :
        /\ pp[p].pc = "injecting"
        /\ pp[p].ti = 0
        /\ pp[p].attempt = 2

\* C18: after a confirmed send the post-send action arms exactly what the
\* postSendAction stored at that moment asks for: the close timer alone for
\* close, nothing for none, and the reload timer alone for refresh, for an
\* unset and for an unknown value; a change made while the send was in
\* flight decides.  (The settings are those the store returns: once the
\* extension context is gone getSettings returns null, which acts as unset.)
C18_ActionReadAtActionTime ==
    [][\A p \in Passes :
        (PostAction(p) /\ ctxValid) =>
            LET a == settings.postSendAction
            IN  /\ a = "close" => (closeArmed' /\ reloadArmed' = reloadArmed)
                /\ a = "none" => UNCHANGED timerVars
                /\ a \notin {"close", "none"} => (reloadArmed' /\ closeArmed' = closeArmed)]_vars

C18_Witness ==
    /\ last.ev = "postActionAfterChange"
    /\ settings.postSendAction = "close"
    /\ closeArmed
    /\ ~reloadArmed

\* C19: closeTab asks the host to close the tab when the capability
\* exists; when it does not exist, when the host answers without success
\* and when the request throws, it calls window.close() exactly once;
\* after a confirmed success it does not call it; and it returns true
\* exactly when the host confirmed success.
C19_CloseFallsBackOnce ==
    last.ev = "closeTab" =>
        /\ last.asked = last.e.runtime
        /\ last.result = (last.e.runtime /\ last.e.answer = "success")
        /\ last.closes = IF last.result THEN 0 ELSE 1

C19_Witness ==
    /\ last.ev = "closeTab"
    /\ last.e.runtime
    /\ last.e.answer = "failure"
    /\ last.closes = 1
    /\ ~last.result
    /\ alive

\* C20: of the three calls of injectAndSendMessage that the duplicate test
\* makes in rapid succession, at most one reports success.
C20_AtMostOneRapidSuccess ==
    Cardinality({i \in 1..RapidCalls : dup.calls[i] = "true"}) <= 1

(* ------------------------------- C21 ----------------------------------- *)
ScheduleIds(list) == { list[i].id : i \in DOMAIN list }

\* C21: no step of the engine (markScheduleSent's write, the write of the
\* daily reset) makes a stored schedule disappear, also while the interface
\* adds schedules.
C21_EngineNeverDeletes ==
    [][((\E p \in Passes : MarkWrite(p)) \/ ResetWrite)
          => ScheduleIds(store) \subseteq ScheduleIds(store')]_vars

(* ------------------------------- C22 ----------------------------------- *)
\* C22: the sendDelay a delivery sleeps between targets and the autoRetry
\* that sets the retries of its conversation switches are the values the
\* settings store held when that delivery started (the defaults standing in
\* for values the store did not hold).
C22_SettingsOfDeliveryStart ==
    [][\A p \in Passes :
        /\ TargetDelay(p) => pp'[p].slept = initSettings(pp[p].held).sendDelay
        /\ OpenChat(p) =>
              pp'[p].tries = IF initSettings(pp[p].held).autoRetry THEN 3 ELSE 1]_vars

(* ------------------------------- C23 ----------------------------------- *)
\* C23: when every await returns, a delivery that has taken isSending
\* leaves sendScheduledMessage after finitely many steps, and isSending is
\* released.
C23_DeliveryEnds ==
    /\ \A p \in Passes : (pp[p].pc \in DeliveryPcs) ~> (pp[p].pc \notin DeliveryPcs)
    /\ isSending ~> ~isSending

C23_Witness ==
    /\ ~isSending
    /\ last = Event("postAction", 1)
    /\ \E p \in Passes :
        /\ pp[p].pc = "settle"
        /\ pp[p].idx = 1
        /\ Len(Contacts(pp[p])) = 2
    /\ chat = "B"

(* ---------------------------- C24, C25 --------------------------------- *)
\* the invocations among the first n that resolve truthy
TruthyAt(outs, n) == { k \in 1..n : truthy(outs[k]) }

\* C24: smartRetry invokes the operation at most maxRetries times; it stops
\* at the first invocation that resolves truthy and returns that value; an
\* invocation that throws counts like one that resolves falsy; when none of
\* the maxRetries invocations resolves truthy it returns false.
C24_FirstTruthyOrFalse ==
    call.fn = "smartRetry" =>
        /\ call.calls <= call.maxRetries
        /\ call.pc = "done" =>
            LET ok == TruthyAt(call.outs, call.maxRetries)
            IN  IF ok # {}
                THEN /\ call.calls \in ok
                     /\ \A k \in ok : call.calls <= k
                     /\ call.result = call.outs[call.calls]
                ELSE /\ call.calls = call.maxRetries
                     /\ call.result = "false"

C24_Witness ==
    /\ call.fn = "smartRetry" /\ call.pc = "done"
    /\ call.maxRetries = 3
    /\ call.outs[1] = "throws" /\ call.outs[2] = "false" /\ call.outs[3] = "object"
    /\ call.calls = 3
    /\ call.result = "object"

RECURSIVE SumSeq(_)
SumSeq(s) == IF s = <<>> THEN 0 ELSE Head(s) + SumSeq(Tail(s))

\* C25: the k-th sleep of smartRetry lasts min(1000 * 2^(k-1), 5000) ms and
\* lies between failed attempt k and attempt k+1: there is none before the
\* first attempt and none after the last one; with maxRetries = 3 and an
\* operation that fails twice and then succeeds the sleeps add up to
\* 1000 + 2000 ms.
C25_BackoffDelays ==
    call.fn = "smartRetry" =>
        /\ \A k \in DOMAIN call.slept :
                call.slept[k] = IF 1000 * 2^(k - 1) < 5000 THEN 1000 * 2^(k - 1) ELSE 5000
        /\ call.pc = "invoke" => Len(call.slept) = call.calls
        /\ call.pc = "sleep" => Len(call.slept) = call.calls - 1
        /\ call.pc = "done" =>
                Len(call.slept) = IF call.calls = 0 THEN 0 ELSE call.calls - 1
        /\ ( /\ call.pc = "done" /\ call.maxRetries = 3
             /\ TruthyAt(call.outs, 3) = {3} )
                => SumSeq(call.slept) = 1000 + 2000

C25_Witness ==
    /\ call.fn = "smartRetry" /\ call.pc = "done"
    /\ call.maxRetries = 3
    /\ TruthyAt(call.outs, 3) = {3}
    /\ call.slept = <<1000, 2000>>
    /\ call.result = "true"

(* ------------------------------- C26 ----------------------------------- *)
\* C26: waitForMessageSent polls at most 15 times; it returns true only if
\* at one and the same poll the composer was empty and an outgoing message
\* with the text's prefix was visible; it returns false when no outgoing
\* message with the prefix was visible at any poll.
C26_TrueOnlyWhenSeenSent ==
    call.fn = "waitForMessageSent" =>
        /\ call.i <= VerifierPolls
        /\ (call.pc = "done" /\ call.result)
              => \E env \in call.seen : env.composer = "empty" /\ env.match = "outgoing"
        /\ (call.pc = "done" /\ \A env \in call.seen : env.match # "outgoing")
              => ~call.result

(* ------------------------------- C28 ----------------------------------- *)
\* C28: injectAndSendMessage enters its methods in the order 1 (clipboard
\* paste), 2 (insertText), 3 (typing); a method is entered only after every
\* earlier one has been entered and has failed, and none is entered after
\* the one that succeeded.
C28_MethodsInOrder ==
    inj.pc # "none" =>
        /\ Len(inj.tried) <= 3
        /\ \A k \in DOMAIN inj.tried : inj.tried[k] = k
        /\ inj.result => (inj.pc = "done" /\ inj.method = Len(inj.tried))

C28_Witness ==
    /\ inj.pc = "done"
    /\ inj.tried = <<1, 2, 3>>
    /\ inj.e.pasted /\ ~inj.e.sent1
    /\ inj.result

(* ------------------------------- C27 ----------------------------------- *)
\* C27: no call of injectAndSendMessage goes on to the composer earlier
\* than sendCooldown after the last send that returned true, and a call
\* that arrives inside the cooldown sleeps until the cooldown is over.
C27_CooldownRespected ==
    [][call.fn = "cooldown" =>
        \A c \in Callers :
            /\ (call.who[c].pc # "run" /\ call'.who[c].pc = "run")
                  => call.time - call.lastSendTime >= sendCooldown
            /\ (CoolArrive(c) /\ call.time - call.lastSendTime < sendCooldown)
                  => /\ call'.who[c].pc = "sleep"
                     /\ call'.who[c].wake = call.lastSendTime + sendCooldown]_vars

(* ---------------------------- C29, C30 --------------------------------- *)
\* C29: openChat returns true only when, after the gesture sequence of an
\* attempt, a composer is found that is not the search surface; a failed
\* attempt is followed by a pacing delay before the sequence starts over;
\* at most retries attempts are made, and after them openChat returns
\* false.
C29_OpenedOnlyWithComposer ==
    call.fn = "openChat" =>
        /\ call.attempt <= call.retries
        /\ call.gestures <= call.retries
        /\ \A k \in DOMAIN call.slept : call.slept[k] > 0
        /\ call.pc = "attempt" => (call.attempt < call.retries /\ Len(call.slept) = call.attempt)
        /\ (call.pc = "done" /\ call.result)
              => /\ call.gestures >= 1
                 /\ call.at.search /\ ~call.at.throws
                 /\ call.at.composer = "composer"
        /\ (call.pc = "done" /\ ~call.result)
              => /\ call.attempt = call.retries
                 /\ Len(call.slept) = call.retries

C29_Witness ==
    /\ call.fn = "openChat" /\ call.pc = "done"
    /\ call.retries = 3
    /\ call.result
    /\ call.slept = <<300, 500>>
    /\ call.gestures = 2

\* C30: openChat reports a conversation as opened only when a composer is
\* present and the header contains the name, or the selected list entry
\* contains it, or focus has left the search surface.
C30_OpenedOnlyWhenLoaded ==
    (call.fn = "openChat" /\ call.pc = "done" /\ call.result)
        => /\ call.at.composer # "none"
           /\ call.at.header \/ call.at.selected \/ ~call.at.focusOnSearch

(* ------------------------------- C31 ----------------------------------- *)
\* C31: a tick of the anti-inactivity interval emits synthetic activity
\* only if the user's last own event lies 3 minutes or more back; a tick
\* less than 3 minutes after such an event emits nothing and leaves
\* lastActivity as it is.
C31_QuietWhileUserActive ==
    [][(call.fn = "antiIdle" /\ ActivityTick) =>
        LET userRecent == call.genuine /\ call.time - call.lastGenuine < 3
        IN  /\ call'.out = "emitted" => ~userRecent
            /\ userRecent => (call'.out = "skipped"
                                /\ call'.lastActivity = call.lastActivity)]_vars

C31_Witness ==
    /\ call.fn = "antiIdle"
    /\ call.out = "skipped"
    /\ call.tickedAt = call.time
    /\ call.interval = 5 /\ call.time = 10
    /\ call.genuine /\ call.lastGenuine = 8
    /\ call.lastActivity = 8

(* ------------------------------- C32 ----------------------------------- *)
\* C32: in a delivery to several targets the text for a target is injected
\* only into that target's conversation.
C32_InjectedIntoTarget ==
    call.fn = "targets" =>
        /\ \A x \in call.into : x[2] = x[1]
        /\ call.pc = "inject" => call.shown = call.contacts[call.ti]

(* ------------------------------- C33 ----------------------------------- *)
\* C33: one call of injectAndSendMessage dispatches the Enter keystroke at
\* most once.
C33_AtMostOneSubmit ==
    inj.pc # "none" => inj.enters <= 1

(* ------------------------------- C34 ----------------------------------- *)
\* the answer of markScheduleSent: updateSchedule found the id in the list
\* it read and saveSchedules wrote it to chrome.storage
markScheduleSentResult(r) ==
    findIndex(r.snap, r.pending[r.idx].id) # 0 /\ saveSchedulesResult

\* C34: messageSent is emitted and the post-send action is reached only
\* when markScheduleSent answered true; when it answered false neither
\* happens.
C34_NotifiedOnlyWhenMarked ==
    [][\A p \in Passes :
        (MarkWrite(p) /\ ~markScheduleSentResult(pp[p]))
            => (last' = last /\ pp'[p].pc # "post")]_vars

(* ------------------------------- C35 ----------------------------------- *)
\* the record of the schedule with this id in a list that holds it
entryOf(list, id) == list[findIndex(list, id)]

\* C35: every write of a store operation keeps what the other operations
\* have written since it read the list: a removed schedule does not come
\* back, a schedule added meanwhile is not dropped, and a sent mark set
\* meanwhile is not taken back.
C35_NoLostUpdate ==
    [][LET before == ScheduleIds(store)
           after == ScheduleIds(store')
           added == IF UIWrite /\ uu.pc = "add" THEN {uu.arg} ELSE {}
           removed == IF UIWrite /\ uu.pc = "remove" THEN {uu.arg} ELSE {}
       IN  /\ after \subseteq before \cup added
           /\ before \ removed \subseteq after
           /\ \A id \in before \cap after :
                 entryOf(store, id).lastSentDate = today
                     => entryOf(store', id).lastSentDate = today]_vars

(* ------------------------------- C36 ----------------------------------- *)
\* C36: a delivery starts only for a schedule that the store still holds,
\* unsent, at that moment.
C36_DeliveredOnlyIfStillStored ==
    [][\A p \in Passes :
        (SendStart(p) /\ pp'[p].pc \in DeliveryPcs)
            => /\ Current(p).id \in ScheduleIds(store)
               /\ ~entryOf(store, Current(p).id).sent]_vars

(* ------------------------------- C37 ----------------------------------- *)
\* C37: the page is reloaded (by a post-send timer or by the watchdog) or
\* the tab is closed only while no delivery is in progress.
C37_NoReloadWhileSending ==
    [][(ReloadFire \/ WatchdogReload \/ (CloseFire /\ ~alive')) => ~isSending]_vars

(* ------------------------------- C38 ----------------------------------- *)
\* C38: the tail of testSend calls handlePostSendAction only for a send
\* that went straight into injectAndSendMessage; a test-send that went
\* through sendToTargets, whose own tail has called it already, gets no
\* second call.
C38_OnePostActionPerTestSend ==
    [][(TestReport /\ tt.success) => tt.direct]_vars

(* ------------------------------- C39 ----------------------------------- *)
\* sendToTargets between its acquisition of isSending and its finally
TestHolding == ~tt.direct /\ tt.pc \in PagePcs \cup {"finish"}

C40_RunsAgainAfterRestart ==
    (call.pc = "sleep") ~> isRunning
====
